---- MODULE Spec2Model ----
(***************************************************************************)
(* Model of stitcher_cli.py: the coordinate normalizer                     *)
(* (process_coordinates_file), the parameter construction (create_params)  *)
(* and the orchestrating entry point (main).                               *)
(*                                                                         *)
(* A numeric CSV cell is a record [na, v]: pandas' missing value NaN is    *)
(* [na |-> TRUE], an integer n is [na |-> FALSE, v |-> n].  The grid       *)
(* indices i, j and z_level are integer-valued (RawCoordinateRecord), so   *)
(* astype(int) changes no value and only fails on NaN.                     *)
(***************************************************************************)
EXTENDS Integers, Sequences, FiniteSets, TLC

\* ------------------------------------------------------------- bounds
\* Grid indices i and j of the enumerated raw tables range over 0..MaxIdx.
MaxIdx == 1
\* The enumerated raw tables have at most MaxRows rows.
MaxRows == 2
\* 0xffffffff + 1 of line 103, scaled down to fit TLC's 32-bit integers.
WordMod == 65536

\* ------------------------------------------------------------- values
NaN == [na |-> TRUE, v |-> 0]
Num(n) == [na |-> FALSE, v |-> n]

NoFile == [exists |-> FALSE, columns |-> <<>>, rows |-> <<>>]
CsvFile(columns, rows) == [exists |-> TRUE, columns |-> columns, rows |-> rows]

Range(s) == {s[k] : k \in DOMAIN s}

SetMax(S) == CHOOSE m \in S : \A n \in S : n <= m

\* ------------------------------------------------- coordinate normalizer
\* line 113
RequiredColumns == <<"region", "i", "j", "z_level", "x (mm)", "y (mm)", "z (um)">>

\* lines 128-135: the columns of new_df, in order
CanonicalColumns == <<"region", "fov", "z_level", "x (mm)", "y (mm)", "z (um)">>

\* Variant of InputCoordsFile: the acquisition subfolder '0' is left out.
InputCoordsFileNoSubfolder(input_folder) == <<input_folder, "coordinates.csv">>

\* line 95: os.path.join(input_folder, '0', 'coordinates.csv')
InputCoordsFile(input_folder) == <<input_folder, "0", "coordinates.csv">>

\* line 103: hash(input_folder) & 0xffffffff, on the value h that hash() gave
FolderHash(h) == h % WordMod

\* lines 98-99, 104: ~/.image_stitcher_processed/coordinates_processed_<hash>.csv
OutputCoordsFile(folder_hash) ==
    [dir |-> ".image_stitcher_processed", name |-> "coordinates_processed_", hash |-> folder_hash]

\* lines 114-116: the first required column that df lacks, 0 when none is missing
FirstMissing(columns) ==
    LET missing == {k \in DOMAIN RequiredColumns : RequiredColumns[k] \notin Range(columns)}
    IN  IF missing = {} THEN 0 ELSE CHOOSE k \in missing : \A m \in missing : k <= m

\* line 119: fillna(0)
FillNaZero(cell) == IF cell.na THEN Num(0) ELSE cell

\* lines 119-121: astype(int) raises on a NaN; on an integer-valued cell it keeps the value
CanCastInt(cell) == ~cell.na
AsInt(cell) == Num(cell.v)

\* lines 119-121: the three conversions succeed on every row
CastsSucceed(rows) ==
    \A k \in DOMAIN rows :
        /\ CanCastInt(FillNaZero(rows[k]["j"]))
        /\ CanCastInt(rows[k]["i"])
        /\ CanCastInt(rows[k]["z_level"])

\* line 119: the j column after fillna(0).astype(int)
ColJ(rows) == [k \in DOMAIN rows |-> AsInt(FillNaZero(rows[k]["j"]))]

\* Variant of MaxJ: the + 1 is left out.
MaxJMissingPlusOne(rows) ==
    IF rows = <<>> THEN NaN ELSE Num(SetMax({ColJ(rows)[k].v : k \in DOMAIN rows}))

\* line 124: max_j = df['j'].max() + 1 (NaN for a table without rows)
MaxJ(rows) ==
    IF rows = <<>> THEN NaN ELSE Num(SetMax({ColJ(rows)[k].v : k \in DOMAIN rows}) + 1)

\* Variant of Fov: the row index is not scaled by max_j.
FovUnscaled(i, max_j, j) == Num(i.v + j.v)

\* line 125: df['i'] * max_j + df['j'], row by row
Fov(i, max_j, j) == Num(i.v * max_j.v + j.v)

\* Variant of NewRows: a row equal to an earlier one is dropped (drop_duplicates).
NewRowsDeduplicated(rows) ==
    LET out(k) == [c \in Range(CanonicalColumns) |->
                     CASE c = "fov"     -> Fov(AsInt(rows[k]["i"]), MaxJ(rows), ColJ(rows)[k])
                       [] c = "z_level" -> AsInt(rows[k]["z_level"])
                       [] OTHER         -> rows[k][c]]
        keep == {k \in DOMAIN rows : \A m \in 1..(k - 1) : out(m) # out(k)}
        F[n \in 0..Len(rows)] ==
            IF n = 0 THEN <<>>
            ELSE IF n \in keep THEN Append(F[n - 1], out(n)) ELSE F[n - 1]
    IN  F[Len(rows)]

\* lines 119-135: the rows of new_df, one per row of df
NewRows(rows) ==
    [k \in DOMAIN rows |->
        [c \in Range(CanonicalColumns) |->
            CASE c = "fov"     -> Fov(AsInt(rows[k]["i"]), MaxJ(rows), ColJ(rows)[k])
              [] c = "z_level" -> AsInt(rows[k]["z_level"])
              [] OTHER         -> rows[k][c]]]

\* Variant of ToCsv: the rows are appended to an existing file (mode="a").
ToCsvAppend(old, new_df) ==
    IF old.exists THEN CsvFile(new_df.columns, old.rows \o new_df.rows) ELSE new_df

\* line 138: to_csv(output_coords_file, index=False) replaces the file's content
ToCsv(old, new_df) == new_df


\* lines 128-135
NewDf(file) == CsvFile(CanonicalColumns, NewRows(file.rows))

\* lines 106-121: no statement before line 138 raises
ReachesWrite(file) ==
    /\ file.exists
    /\ FirstMissing(file.columns) = 0
    /\ CastsSucceed(file.rows)

\* Variant of CacheAfter: the output file is opened for writing before the checks.
CacheAfterOpeningFirst(cache, file, out) ==
    IF ReachesWrite(file)
    THEN [cache EXCEPT ![out] = ToCsv(@, NewDf(file))]
    ELSE [cache EXCEPT ![out] = CsvFile(<<>>, <<>>)]

\* lines 106-138: the processed-data directory's files after the call
CacheAfter(cache, file, out) ==
    IF ReachesWrite(file)
    THEN [cache EXCEPT ![out] = ToCsv(@, NewDf(file))]
    ELSE cache

NoPath == [dir |-> "", name |-> "", hash |-> -1]
NoError == [kind |-> "None", text |-> "", arg |-> ""]

\* lines 106-107, 114-116, 119-121, 144: what the call raises or returns
CallResult(input_folder, file, out) ==
    IF ~file.exists
    THEN [folder |-> input_folder, outcome |-> "raised", returned |-> NoPath,
          error |-> [kind |-> "FileNotFoundError",
                     text |-> "Coordinates file not found: ",
                     arg  |-> InputCoordsFile(input_folder)]]
    ELSE IF FirstMissing(file.columns) # 0
    THEN [folder |-> input_folder, outcome |-> "raised", returned |-> NoPath,
          error |-> [kind |-> "ValueError",
                     text |-> "Missing required column in coordinates.csv: ",
                     arg  |-> RequiredColumns[FirstMissing(file.columns)]]]
    ELSE IF ~CastsSucceed(file.rows)
    THEN [folder |-> input_folder, outcome |-> "raised", returned |-> NoPath,
          error |-> [kind |-> "ValueError",
                     text |-> "Cannot convert non-finite values (NA or inf) to integer",
                     arg  |-> ""]]
    ELSE [folder |-> input_folder, outcome |-> "returned", returned |-> out,
          error |-> NoError]


\* ------------------------------------------------------ parameter model
\* StitchingParameters lives in parameters.py; its two constructors and their
\* validation are modelled from the specification's section 4.2.
OutputFormats == {".ome.zarr", ".ome.tiff"}

\* The acquisition folders that exist, and a path that names no folder.
Folders == {"scanA", "scanB"}
Nowhere == "nowhere"

Validate(d) ==
    IF d.output_format \notin OutputFormats
    THEN [ok |-> FALSE, field |-> "output_format"]
    ELSE IF d.input_folder \notin Folders
    THEN [ok |-> FALSE, field |-> "input_folder"]
    ELSE IF d.registration_z_level < 0
    THEN [ok |-> FALSE, field |-> "registration_z_level"]
    ELSE [ok |-> TRUE, field |-> ""]

FromDict(d) == [ok |-> Validate(d).ok, field |-> Validate(d).field, params |-> d]

\* lines 73-84: the dictionary of the discrete command-line fields
ParamsDict(a) ==
    [input_folder         |-> a.input_folder,
     output_format        |-> a.output_format,
     apply_flatfield      |-> a.apply_flatfield,
     use_registration     |-> a.use_registration,
     registration_channel |-> a.registration_channel,
     registration_z_level |-> a.registration_z_level,
     scan_pattern         |-> a.scan_pattern,
     merge_timepoints     |-> a.merge_timepoints,
     merge_hcs_regions    |-> a.merge_hcs_regions,
     dynamic_registration |-> a.dynamic_registration]

\* The parameter documents on disk, by path.
JsonPaths == {"paramsA.json", "paramsB.json", "paramsNowhere.json"}

\* lines 15-63: the namespace parse_args returns; every option not given on the
\* command line has its argparse default
Namespace(input_folder, registration_z_level, params_json) ==
    [input_folder         |-> input_folder,
     output_format        |-> ".ome.zarr",
     apply_flatfield      |-> FALSE,
     use_registration     |-> FALSE,
     registration_channel |-> "None",
     registration_z_level |-> registration_z_level,
     dynamic_registration |-> FALSE,
     scan_pattern         |-> "Unidirectional",
     merge_timepoints     |-> FALSE,
     merge_hcs_regions    |-> FALSE,
     params_json          |-> params_json]

JsonDocument(path) ==
    ParamsDict(Namespace(CASE path = "paramsA.json" -> "scanA"
                           [] path = "paramsB.json" -> "scanB"
                           [] OTHER -> Nowhere,
                         0, "None"))

FromJson(path) == FromDict(JsonDocument(path))

\* lines 67-86: None and the empty string are both false in line 69
CreateParams(a) ==
    IF a.params_json \notin {"None", ""}
    THEN FromJson(a.params_json)
    ELSE FromDict(ParamsDict(a))

NoParams == [input_folder |-> "None"]


\* ------------------------------------------------------------- inputs
Regions == {"A1", "B2"}

\* z-level and stage position of a captured tile: z_level, x (mm), y (mm), z (um)
Stage0 == [z_level |-> 0, x |-> 10, y |-> 20, z |-> 0]
Stage1 == [z_level |-> 1, x |-> 15, y |-> 25, z |-> 5]
Stages == {Stage0, Stage1}

RawRow(region, i, j, st) ==
    [region |-> region, i |-> i, j |-> j, z_level |-> Num(st.z_level)]
        @@ ("x (mm)" :> Num(st.x)) @@ ("y (mm)" :> Num(st.y)) @@ ("z (um)" :> Num(st.z))

\* Every raw table of at most MaxRows rows over the grid 0..MaxIdx, j possibly absent.
RichRows ==
    {RawRow(r, Num(i), j, st) :
        r \in Regions, i \in 0..MaxIdx, j \in {Num(n) : n \in 0..MaxIdx} \cup {NaN}, st \in Stages}

RichFiles ==
    {CsvFile(RequiredColumns, rows) : rows \in UNION {[1..n -> RichRows] : n \in 0..MaxRows}}

\* The example of the specification's section 8.
ExampleFile ==
    CsvFile(RequiredColumns,
            <<RawRow("A1", Num(0), Num(0), Stage0),
              RawRow("A1", Num(0), Num(1), Stage0),
              RawRow("A1", Num(1), Num(0), Stage0)>>)

\* Two regions, two z-levels, one absent j.
MultiRegionFile ==
    CsvFile(RequiredColumns,
            <<RawRow("A1", Num(1), NaN, Stage0),
              RawRow("B2", Num(0), Num(1), Stage1)>>)

\* A table that lacks the columns j and z (um).
Restrict(row, columns) == [c \in Range(columns) |-> row[c]]

DeficientFile ==
    CsvFile(<<"region", "i", "z_level", "x (mm)", "y (mm)">>,
            <<Restrict(RawRow("A1", Num(0), Num(0), Stage0),
                       <<"region", "i", "z_level", "x (mm)", "y (mm)">>)>>)

\* A table whose i is absent on a row.
UncastableFile ==
    CsvFile(RequiredColumns, <<RawRow("A1", NaN, Num(0), Stage0)>>)

SampleFiles == {NoFile, ExampleFile, MultiRegionFile, DeficientFile, UncastableFile}

\* The values hash(input_folder) takes: str hashes are salted per interpreter
\* process, so the value is not determined by the folder.
HashSamples == {1, WordMod + 1, -1}

CacheNames == {OutputCoordsFile(FolderHash(h)) : h \in HashSamples}

\* ------------------------------------------------------------- state
VARIABLES
    rawFiles,      \* <input_folder>/0/coordinates.csv, by input folder
    processedDir,  \* whether ~/.image_stitcher_processed exists
    cacheFiles,    \* the files of the processed-data directory, by path
    lastCall,      \* outcome of the latest call of process_coordinates_file
    written,       \* history: (folder, path, table) of every call that wrote
    pc,            \* position of main
    args,          \* the parsed command line
    params,        \* the StitchingParameters of the run
    stitcher,      \* the parameters the engine was constructed with
    steps,         \* history: the steps main has started in this run
    engineFailure, \* the kind of failure run() raised, "None" if none
    exit           \* how main ended: what it raised, the exit status, stderr

fsVars == <<rawFiles, processedDir, cacheFiles, lastCall, written>>
mainVars == <<pc, args, params, stitcher, steps, engineFailure, exit>>
vars == <<rawFiles, processedDir, cacheFiles, lastCall, written,
          pc, args, params, stitcher, steps, engineFailure, exit>>

NoCall == [folder |-> "None", outcome |-> "none", returned |-> NoPath, error |-> NoError]
NoArgs == Namespace("None", 0, "None")
Running == [raised |-> "None", status |-> 0, stderr |-> NoError]

InitState(files) ==
    /\ rawFiles = files
    /\ processedDir = FALSE
    /\ cacheFiles = [c \in CacheNames |-> NoFile]
    /\ lastCall = NoCall
    /\ written = {}
    /\ pc = "idle"
    /\ args = NoArgs
    /\ params = NoParams
    /\ stitcher = NoParams
    /\ steps = <<>>
    /\ engineFailure = "None"
    /\ exit = Running

Init == \E files \in [Folders -> SampleFiles] : InitState(files)

NormInit ==
    \E t \in RichFiles : InitState([f \in Folders |-> IF f = "scanA" THEN t ELSE NoFile])

\* lines 88-144: one call of process_coordinates_file, hash(input_folder) being h
ProcessCoordinatesFile(input_folder, h) ==
    LET file == rawFiles[input_folder]
        out  == OutputCoordsFile(FolderHash(h))
    IN  /\ processedDir' = TRUE
        /\ cacheFiles' = CacheAfter(cacheFiles, file, out)
        /\ lastCall' = CallResult(input_folder, file, out)
        /\ written' = IF ReachesWrite(file)
                      THEN written \cup {[folder |-> input_folder, path |-> out,
                                          table |-> CacheAfter(cacheFiles, file, out)[out]]}
                      ELSE written
        /\ UNCHANGED rawFiles

\* The normalizer called on its own, once, on the enumerated table.
NormCall ==
    /\ lastCall = NoCall
    /\ \E h \in HashSamples : ProcessCoordinatesFile("scanA", h)
    /\ UNCHANGED mainVars

NormNext == NormCall

NormSpec == NormInit /\ [][NormNext]_vars


\* ------------------------------------------------------------- main
\* The failures the external engine raises: two kinds derived from Exception,
\* and KeyboardInterrupt, which derives from BaseException only.
EngineFailures == {"RuntimeError", "MemoryError", "KeyboardInterrupt"}

\* line 177: the kinds `except Exception` catches
IsException(kind) == kind # "KeyboardInterrupt"

EngineError(kind) == [kind |-> kind, text |-> "engine failure", arg |-> ""]

\* Variant of Except: the failure is printed and main returns normally.
ExceptSwallowing(error) ==
    [raised |-> "None", status |-> 0, stderr |-> [error EXCEPT !.kind = "None"]]

\* lines 177-179: a caught failure is printed by its message alone and main raises
\* SystemExit(1); a failure that is no Exception leaves main as it is (the
\* interpreter ends an unhandled KeyboardInterrupt with status 130)
Except(error) ==
    IF IsException(error.kind)
    THEN [raised |-> "SystemExit", status |-> 1, stderr |-> [error EXCEPT !.kind = "None"]]
    ELSE [raised |-> error.kind, status |-> 130, stderr |-> NoError]

\* Variant of PcAfterFailure: a failed run() is tried again.
PcAfterFailureRetrying(step) == IF step = "run" THEN "constructed" ELSE "exited"

\* lines 177-179: no failure is retried, main ends
PcAfterFailure(step) == "exited"

\* line 149: a new process parses its command line
ParseArgs ==
    /\ pc \in {"idle", "exited"}
    /\ \E f \in Folders, z \in {0, -1}, pj \in JsonPaths \cup {"None", ""} :
           args' = Namespace(f, z, pj)
    /\ pc' = "parsed"
    /\ params' = NoParams
    /\ stitcher' = NoParams
    /\ steps' = <<>>
    /\ engineFailure' = "None"
    /\ exit' = Running
    /\ lastCall' = NoCall
    /\ UNCHANGED <<rawFiles, processedDir, cacheFiles, written>>

\* line 153
Normalize ==
    /\ pc = "parsed"
    /\ \E h \in HashSamples : ProcessCoordinatesFile(args.input_folder, h)
    /\ steps' = Append(steps, "normalize")
    /\ IF lastCall'.outcome = "returned"
       THEN pc' = "normalized" /\ exit' = exit
       ELSE pc' = PcAfterFailure("normalize") /\ exit' = Except(lastCall'.error)
    /\ UNCHANGED <<args, params, stitcher, engineFailure>>

\* line 156
MakeParams ==
    /\ pc = "normalized"
    /\ steps' = Append(steps, "create_params")
    /\ IF CreateParams(args).ok
       THEN /\ params' = CreateParams(args).params
            /\ pc' = "created"
            /\ exit' = exit
       ELSE /\ params' = params
            /\ pc' = PcAfterFailure("create_params")
            /\ exit' = Except([kind |-> "ConfigError", text |-> "invalid field: ",
                               arg |-> CreateParams(args).field])
    /\ UNCHANGED <<args, stitcher, engineFailure>>
    /\ UNCHANGED fsVars

\* line 159: CoordinateStitcher(params); the constructor is the engine's and may raise
Construct ==
    /\ pc = "created"
    /\ steps' = Append(steps, "construct")
    /\ \E outcome \in {"ok", "RuntimeError"} :
           IF outcome = "ok"
           THEN /\ stitcher' = params
                /\ pc' = "constructed"
                /\ exit' = exit
           ELSE /\ stitcher' = stitcher
                /\ pc' = PcAfterFailure("construct")
                /\ exit' = Except(EngineError(outcome))
    /\ UNCHANGED <<args, params, engineFailure>>
    /\ UNCHANGED fsVars

\* lines 162-175: the parameters are printed, then stitcher.run() returns or raises
Run ==
    /\ pc = "constructed"
    /\ steps' = Append(steps, "run")
    /\ \E outcome \in {"ok"} \cup EngineFailures :
           IF outcome = "ok"
           THEN /\ pc' = "exited"
                /\ engineFailure' = engineFailure
                /\ exit' = [raised |-> "None", status |-> 0, stderr |-> NoError]
           ELSE /\ pc' = PcAfterFailure("run")
                /\ engineFailure' = outcome
                /\ exit' = Except(EngineError(outcome))
    /\ UNCHANGED <<args, params, stitcher>>
    /\ UNCHANGED fsVars

Next == ParseArgs \/ Normalize \/ MakeParams \/ Construct \/ Run

Spec == Init /\ [][Next]_vars


\* ------------------------------------------------------------- properties
\* The raw table the latest call read and the rows of the file it returned.
RawOfCall == rawFiles[lastCall.folder].rows
OutOfCall == cacheFiles[lastCall.returned].rows

\* A row's j with an absent j replaced by 0, and 1 + the largest of them over the table.
JOf(row) == IF row["j"].na THEN 0 ELSE row["j"].v
GlobalMaxJ(raw) == 1 + SetMax({JOf(raw[k]) : k \in DOMAIN raw})
GlobalMaxI(raw) == SetMax({raw[k]["i"].v : k \in DOMAIN raw})

\* C1: every output row of an accepted table has fov = i * max_j + j', j' being the
\* row's j with an absent j replaced by 0 and max_j being 1 + the largest j' over all
\* rows of the table, whatever their region or z-level.
C1_FovIsRowMajorIndex ==
    lastCall.outcome = "returned" =>
        /\ DOMAIN OutOfCall = DOMAIN RawOfCall
        /\ \A k \in DOMAIN RawOfCall :
               OutOfCall[k]["fov"] =
                   Num(RawOfCall[k]["i"].v * GlobalMaxJ(RawOfCall) + JOf(RawOfCall[k]))

\* A row without j in one region, the largest j in the other region.
C1_Witness ==
    /\ lastCall.outcome = "returned"
    /\ Len(RawOfCall) = 2
    /\ RawOfCall[1]["j"].na /\ RawOfCall[1]["i"].v = 1 /\ RawOfCall[1]["region"] = "A1"
    /\ RawOfCall[2]["j"] = Num(1) /\ RawOfCall[2]["region"] = "B2"
    /\ OutOfCall[1]["fov"] = Num(2)

JPresent(raw) == \A k \in DOMAIN raw : ~raw[k]["j"].na
JDense(raw) == {raw[k]["j"].v : k \in DOMAIN raw} = 0..(GlobalMaxJ(raw) - 1)
GridFull(raw) ==
    \A i \in 0..GlobalMaxI(raw), j \in 0..(GlobalMaxJ(raw) - 1) :
        \E k \in DOMAIN raw : raw[k]["i"].v = i /\ raw[k]["j"].v = j
FovRange(raw) == 0..((GlobalMaxI(raw) + 1) * GlobalMaxJ(raw) - 1)

\* C2 as stated: with j present on every row and dense over [0, max_j), the fov
\* values are exactly {0, ..., (max_i+1)*max_j - 1} and no two rows share a fov.
C2_DenseJGivesExactRangeNoDuplicates ==
    (/\ lastCall.outcome = "returned"
     /\ RawOfCall # <<>>
     /\ JPresent(RawOfCall)
     /\ JDense(RawOfCall)) =>
        /\ {OutOfCall[k]["fov"].v : k \in DOMAIN OutOfCall} = FovRange(RawOfCall)
        /\ \A k, m \in DOMAIN OutOfCall : k # m => OutOfCall[k]["fov"] # OutOfCall[m]["fov"]

\* C2 as amended: with j present on every row, every fov lies in
\* {0, ..., (max_i+1)*max_j - 1}, two rows share a fov exactly when they share
\* (i, j), and the fov values are the whole range when every cell of the grid
\* [0, max_i] x [0, max_j) occurs in the table.
C2_FovIndexesGridCells ==
    (/\ lastCall.outcome = "returned"
     /\ RawOfCall # <<>>
     /\ JPresent(RawOfCall)) =>
        /\ DOMAIN OutOfCall = DOMAIN RawOfCall
        /\ \A k \in DOMAIN OutOfCall : OutOfCall[k]["fov"].v \in FovRange(RawOfCall)
        /\ \A k, m \in DOMAIN OutOfCall :
               (OutOfCall[k]["fov"] = OutOfCall[m]["fov"])
                   <=> (/\ RawOfCall[k]["i"] = RawOfCall[m]["i"]
                        /\ RawOfCall[k]["j"] = RawOfCall[m]["j"])
        /\ GridFull(RawOfCall) =>
               {OutOfCall[k]["fov"].v : k \in DOMAIN OutOfCall} = FovRange(RawOfCall)

\* The grid cells (0,1) and (1,0) of a table with max_j = 2, indexed 1 and 2.
C2_Witness ==
    /\ lastCall.outcome = "returned"
    /\ Len(RawOfCall) = 2
    /\ JPresent(RawOfCall)
    /\ RawOfCall[1]["i"] = Num(0) /\ RawOfCall[1]["j"] = Num(1)
    /\ RawOfCall[2]["i"] = Num(1) /\ RawOfCall[2]["j"] = Num(0)
    /\ OutOfCall[1]["fov"] = Num(1) /\ OutOfCall[2]["fov"] = Num(2)

\* C3: the canonical table has one row per input row, in the input's order, each
\* with its input row's region, z_level, x (mm), y (mm) and z (um), and with fov in
\* the place of i and j.
C3_OneRowPerInputRow ==
    lastCall.outcome = "returned" =>
        /\ cacheFiles[lastCall.returned].columns = CanonicalColumns
        /\ Len(OutOfCall) = Len(RawOfCall)
        /\ \A k \in DOMAIN OutOfCall :
               /\ DOMAIN OutOfCall[k] = {"region", "fov", "z_level", "x (mm)", "y (mm)", "z (um)"}
               /\ \A c \in {"region", "z_level", "x (mm)", "y (mm)", "z (um)"} :
                      OutOfCall[k][c] = RawOfCall[k][c]

\* Two identical input rows, both kept.
C3_Witness ==
    /\ lastCall.outcome = "returned"
    /\ Len(RawOfCall) = 2
    /\ RawOfCall[1] = RawOfCall[2]
    /\ Len(OutOfCall) = 2
    /\ OutOfCall[1] = OutOfCall[2]


\* C4: the folder whose coordinates were normalized is the input_folder of the
\* parameters the engine is constructed with, however the parameters were made.
C4_NormalizedFolderIsParametersFolder ==
    stitcher # NoParams => stitcher.input_folder = lastCall.folder

C6_MissingFileRaisesAndWritesNothing ==
    [][(pc = "parsed" /\ pc' # "parsed" /\ ~rawFiles[args.input_folder].exists) =>
           /\ lastCall'.outcome = "raised"
           /\ lastCall'.returned = NoPath
           /\ lastCall'.error.kind = "FileNotFoundError"
           /\ lastCall'.error.arg = <<args.input_folder, "0", "coordinates.csv">>
           /\ cacheFiles' = cacheFiles]_vars

\* The call failed while every cache name already held a table.
C6_Witness ==
    /\ lastCall.error.kind = "FileNotFoundError"
    /\ \A c \in CacheNames : cacheFiles[c].exists
    /\ exit.status = 1

MissingColumns(file) == {c \in Range(RequiredColumns) : c \notin Range(file.columns)}

C8_CacheNameIdentifiesFolder ==
    \A a, b \in written : (a.folder = b.folder) <=> (a.path = b.path)

\* C9: every run on one input persists the same canonical table, and a fov is
\* determined by the row's i, j and the table's max_j.
C9_RerunPersistsSameTable ==
    /\ \A a, b \in written : a.folder = b.folder => a.table = b.table
    /\ lastCall.outcome = "returned" =>
           \E a \in written :
               /\ a.folder = lastCall.folder
               /\ a.path = lastCall.returned
               /\ a.table = cacheFiles[lastCall.returned]
    /\ \A a, b \in written :
           \A k \in DOMAIN a.table.rows, m \in DOMAIN b.table.rows :
               (/\ rawFiles[a.folder].rows[k]["i"] = rawFiles[b.folder].rows[m]["i"]
                /\ JOf(rawFiles[a.folder].rows[k]) = JOf(rawFiles[b.folder].rows[m])
                /\ GlobalMaxJ(rawFiles[a.folder].rows) = GlobalMaxJ(rawFiles[b.folder].rows))
                   => a.table.rows[k]["fov"] = b.table.rows[m]["fov"]

\* The same folder was normalized by two runs, under two cache names.
C9_Witness ==
    \E a, b \in written :
        /\ a.folder = b.folder
        /\ a.path # b.path
        /\ a.table = b.table
        /\ a.table.rows # <<>>
        /\ cacheFiles[a.path] = cacheFiles[b.path]

IsPrefix(s, t) == Len(s) <= Len(t) /\ \A k \in DOMAIN s : s[k] = t[k]

\* C10: a run takes its steps in the order normalize, create_params, construct,
\* run, each at most once; the engine exists only after normalization and
\* parameter construction succeeded; a run in which either failed has ended with
\* SystemExit(1) and has neither constructed nor run the engine.
C10_StepsInOrderNoRetry ==
    /\ IsPrefix(steps, <<"normalize", "create_params", "construct", "run">>)
    /\ stitcher # NoParams =>
           /\ lastCall.outcome = "returned"
           /\ params # NoParams
           /\ stitcher = params
           /\ Len(steps) >= 3
    /\ (lastCall.outcome = "raised" \/ (Len(steps) >= 2 /\ params = NoParams)) =>
           /\ pc = "exited"
           /\ exit.raised = "SystemExit"
           /\ exit.status = 1
           /\ stitcher = NoParams
           /\ Len(steps) <= 2
    /\ (pc = "exited" /\ Len(steps) = 4) => exit.raised # "None" \/ exit.status = 0

\* Parameter construction failed after a successful normalization.
C10_Witness ==
    /\ pc = "exited"
    /\ steps = <<"normalize", "create_params">>
    /\ lastCall.outcome = "returned"
    /\ exit.status = 1
    /\ stitcher = NoParams

====
